---- MODULE Spec2Model ----
(***************************************************************************)
(* A model of csv-info-mcp: the server's directory resolution              *)
(* (server.py: get_directories, find_file_in_allowed_dirs and the four     *)
(* CSV tools) and the client's query loop (client.py: process_query,       *)
(* chat_loop).                                                             *)
(*                                                                         *)
(* Python's Optional[T] is modelled as a sequence of length 0 or 1:        *)
(* None is <<>> and a present value v is <<v>>.                            *)
(***************************************************************************)
EXTENDS Integers, Sequences, FiniteSets, TLC

VARIABLES
    allowed_directories, \* server.py:12, the process-wide cache
    root_directory,      \* args.root_directory as parse_args() returns it
    cap,                 \* per session: check_client_capability(roots)
    tasks,               \* the tool invocations of the host, in start order
    cpc,                 \* client: where chat_loop / process_query stands
    nq,                  \* client: queries read so far
    query,               \* client: the stripped input line
    messages,            \* client: process_query's messages
    ollama_tools,        \* client: the converted tool catalog
    message,             \* client: response.message of the first chat
    callIdx,             \* client: position of the for loop over tool_calls
    tool_name,           \* client: process_query's tool_name
    result,              \* client: process_query's result
    final_text,          \* client: process_query's final_text
    calls,               \* client: the call_tool requests sent for this query
    chats,               \* client: the chat requests sent for this query
    output,              \* client: what chat_loop printed for this query
    prevMessages,        \* client: messages as the previous query left it
    lookup,              \* one call of find_file_in_allowed_dirs
    conversion           \* one call of convert_tools_to_ollama_format

serverVars == <<allowed_directories, root_directory, cap, tasks>>
clientVars == <<cpc, nq, query, messages, ollama_tools, message, callIdx,
                tool_name, result, final_text, calls, chats, output,
                prevMessages>>
pureVars == <<lookup, conversion>>
vars == <<serverVars, clientVars, pureVars>>

None == <<>>
Some(v) == <<v>>
Get(o) == o[1]

(***************************************************************************)
(* Bounds                                                                  *)
(***************************************************************************)
MaxTasks == 2
MaxQueries == 2
MaxDirs == 2

Sessions == {"s1", "s2"}

(***************************************************************************)
(* Paths and the file system.  A path is [abs, parts]; pathlib keeps ".."  *)
(* components as they are, the operating system resolves them.             *)
(***************************************************************************)
AbsPath(parts) == [abs |-> TRUE, parts |-> parts]
RelPath(parts) == [abs |-> FALSE, parts |-> parts]

DirA == AbsPath(<<"a">>)
DirB == AbsPath(<<"b">>)
DirC == AbsPath(<<"c">>)

\* The directories and regular files that exist (canonical, from the root).
FsDirs == {<<>>, <<"a">>, <<"b">>, <<"c">>, <<"a", "sub">>}
FsFiles == {<<"a", "x.csv">>, <<"b", "x.csv">>, <<"b", "y.csv">>,
            <<"c", "s.csv">>}
Cwd == <<"c">>

\* Path(dir) / file_path
PathJoin(dir, file_path) ==
    IF file_path.abs THEN file_path
    ELSE [abs |-> dir.abs, parts |-> dir.parts \o file_path.parts]

Parent(cur) == IF cur = <<>> THEN <<>> ELSE SubSeq(cur, 1, Len(cur) - 1)

\* The operating system's walk of a path: None when a component is missing.
RECURSIVE Walk(_, _)
Walk(cur, rest) ==
    IF rest = <<>> THEN Some(cur)
    ELSE IF cur \notin FsDirs THEN None
    ELSE IF Head(rest) = ".." THEN Walk(Parent(cur), Tail(rest))
    ELSE IF (cur \o <<Head(rest)>>) \in (FsDirs \cup FsFiles)
         THEN Walk(cur \o <<Head(rest)>>, Tail(rest))
         ELSE None

Resolve(p) == Walk(IF p.abs THEN <<>> ELSE Cwd, p.parts)

PathExists(p) == Resolve(p) # None
PathIsFile(p) == Resolve(p) # None /\ Get(Resolve(p)) \in FsFiles

\* The loop of find_file_in_allowed_dirs, from index i on.
RECURSIVE FindFrom(_, _, _)
FindFrom(file_path, allowed_dirs, i) ==
    IF i > Len(allowed_dirs) THEN None
    ELSE LET potential_path == PathJoin(allowed_dirs[i], file_path) IN
         IF PathExists(potential_path) /\ PathIsFile(potential_path)
         THEN Some(potential_path)
         ELSE FindFrom(file_path, allowed_dirs, i + 1)

\* A variant of the search that keeps looking and answers the last match.
RECURSIVE FindLastFrom(_, _, _)
FindLastFrom(file_path, allowed_dirs, i) ==
    IF i < 1 THEN None
    ELSE LET potential_path == PathJoin(allowed_dirs[i], file_path) IN
         IF PathExists(potential_path) /\ PathIsFile(potential_path)
         THEN Some(potential_path)
         ELSE FindLastFrom(file_path, allowed_dirs, i - 1)

FindLastMatch(file_path, allowed_dirs) ==
    FindLastFrom(file_path, allowed_dirs, Len(allowed_dirs))

find_file_in_allowed_dirs(file_path, allowed_dirs) ==
    FindFrom(file_path, allowed_dirs, 1)

(***************************************************************************)
(* get_directories, cut at its one suspension point (await list_roots).    *)
(***************************************************************************)
\* What a stretch of get_directories ends in: kind is "return", "raise" or
\* "await"; write says that it assigned allowed_directories, capChecked that
\* it called check_client_capability.
GdReturn(dirs, write, checked) ==
    [kind |-> "return", dirs |-> dirs, write |-> write,
     capChecked |-> checked, exc |-> "", err |-> ""]
GdRaise(exc, err, checked) ==
    [kind |-> "raise", dirs |-> <<>>, write |-> FALSE,
     capChecked |-> checked, exc |-> exc, err |-> err]
GdAwait ==
    [kind |-> "await", dirs |-> <<>>, write |-> FALSE,
     capChecked |-> TRUE, exc |-> "", err |-> ""]

\* A variant without the cache test of server.py:22.
GetDirectoriesNoCache(cache, capable, root_dir) ==
    IF capable THEN GdAwait
    ELSE IF root_dir # None THEN GdReturn(<<root_dir[1]>>, TRUE, TRUE)
    ELSE GdRaise("ValueError",
                 "No root directories available. Please provide a root directory",
                 TRUE)

\* A variant that tries --root_directory before the client's capability.
GetDirectoriesStaticFirst(cache, capable, root_dir) ==
    IF cache # None THEN GdReturn(Get(cache), FALSE, FALSE)
    ELSE IF root_dir # None THEN GdReturn(<<root_dir[1]>>, TRUE, TRUE)
    ELSE IF capable THEN GdAwait
    ELSE GdRaise("ValueError",
                 "No root directories available. Please provide a root directory",
                 TRUE)

\* server.py:22-29 and 37-44: up to the await, or to the end without it.
GetDirectoriesEnter(cache, capable, root_dir) ==
    IF cache # None THEN GdReturn(Get(cache), FALSE, FALSE)
    ELSE IF capable THEN GdAwait
    ELSE IF root_dir # None THEN GdReturn(<<root_dir[1]>>, TRUE, TRUE)
    ELSE GdRaise("ValueError",
                 "No root directories available. Please provide a root directory",
                 TRUE)

\* root.uri.path for root in list_roots.roots if root.uri.path is not None
RECURSIVE RootPaths(_)
RootPaths(roots) ==
    IF roots = <<>> THEN <<>>
    ELSE IF Head(roots).path # None
         THEN <<Get(Head(roots).path)>> \o RootPaths(Tail(roots))
         ELSE RootPaths(Tail(roots))

\* A variant without the emptiness test of server.py:31.
GetDirectoriesResumeEmptyOk(roots) == GdReturn(RootPaths(roots), TRUE, TRUE)

\* server.py:30-35: after list_roots has answered with `roots`.
GetDirectoriesResume(roots) ==
    LET dirs == RootPaths(roots) IN
    IF Len(dirs) = 0
    THEN GdRaise("ValueError", "No root directories available from client.", TRUE)
    ELSE GdReturn(dirs, TRUE, TRUE)

(***************************************************************************)
(* The four tools (server.py:62-116).  Each is one try block: resolve the  *)
(* directories, look the file up, read it, answer; any exception becomes   *)
(* a ValueError with the tool's prefix.                                    *)
(***************************************************************************)
ToolNames == {"get_csv_schema", "count_csv_columns", "count_csv_rows",
              "read_csv_columns"}

\* The prefix of the except clause of each tool.
ErrPrefix(tool) ==
    CASE tool = "get_csv_schema" -> "Error getting CSV schema: "
      [] tool = "count_csv_columns" -> "Error counting CSV rows: "
      [] tool = "count_csv_rows" -> "Error counting CSV rows: "
      [] tool = "read_csv_columns" -> "Error reading CSV file: "

\* What polars reads from the file at a canonical location.
CsvData(loc) ==
    CASE loc = <<"a", "x.csv">> ->
            [columns |-> <<"id", "name">>, dtypes |-> <<"Int64", "String">>, nrows |-> 3]
      [] loc = <<"b", "x.csv">> ->
            [columns |-> <<"id">>, dtypes |-> <<"Int64">>, nrows |-> 42]
      [] loc = <<"b", "y.csv">> ->
            [columns |-> <<"k", "v", "w">>, dtypes |-> <<"String", "Float64", "Int64">>, nrows |-> 0]
      [] OTHER ->
            [columns |-> <<"secret">>, dtypes |-> <<"String">>, nrows |-> 1]

read_csv(file_path) == CsvData(Get(Resolve(file_path)))

\* The value each tool returns from the data frame.
ToolValue(tool, df) ==
    CASE tool = "get_csv_schema" ->
            [i \in 1..Len(df.columns) |-> <<df.columns[i], df.dtypes[i]>>]
      [] tool = "count_csv_columns" -> <<Len(df.columns)>>
      [] tool = "count_csv_rows" -> <<df.nrows>>
      [] tool = "read_csv_columns" -> df.columns

ToolError(tool, inner, lookups) ==
    [kind |-> "error", msg |-> ErrPrefix(tool) \o inner, value |-> <<>>,
     lookups |-> lookups, reads |-> 0, opened |-> None]

\* A variant whose tools go on with no directory when resolution fails.
ToolFinishIgnoresFailure(tool, file_path, gd) ==
    LET full_file_path == find_file_in_allowed_dirs(file_path, gd.dirs) IN
    IF full_file_path = None
    THEN ToolError(tool, "File not found in allowed directories", 1)
    ELSE [kind |-> "ok", msg |-> "",
          value |-> ToolValue(tool, read_csv(Get(full_file_path))),
          lookups |-> 1, reads |-> 1,
          opened |-> Resolve(Get(full_file_path))]

\* The tool's body once get_directories has returned or raised (gd).
\* lookups and reads count the calls of find_file_in_allowed_dirs and
\* read_csv the invocation made; opened is the file that was read.
ToolFinish(tool, file_path, gd) ==
    IF gd.kind = "raise" THEN ToolError(tool, gd.err, 0)
    ELSE LET full_file_path == find_file_in_allowed_dirs(file_path, gd.dirs) IN
         IF full_file_path = None
         THEN ToolError(tool, "File not found in allowed directories", 1)
         ELSE [kind |-> "ok", msg |-> "",
               value |-> ToolValue(tool, read_csv(Get(full_file_path))),
               lookups |-> 1, reads |-> 1,
               opened |-> Resolve(Get(full_file_path))]

(***************************************************************************)
(* The host: tool invocations run as coroutines of one event loop; each    *)
(* runs without interruption between two awaits.                           *)
(***************************************************************************)
RootA == [path |-> Some(DirA)]
RootB == [path |-> Some(DirB)]
RootNoPath == [path |-> None]

\* The answers a client may give to list_roots.
RootLists == {<<>>, <<RootA>>, <<RootNoPath>>, <<RootNoPath, RootB, RootA>>}

\* The tool calls the host receives: each tool on a file that exists in
\* /a and /b, and one on a file that exists nowhere.
ToolCalls ==
    {<<tool, RelPath(<<"x.csv">>)>> : tool \in ToolNames}
        \cup {<<"count_csv_rows", RelPath(<<"nope.csv">>)>>}

\* The values of args.root_directory (nargs=1: a list of one, or None).
RootDirectoryArgs == {None, <<DirC>>}

NewTask(s, tool, file_path, gd) ==
    [session |-> s, tool |-> tool, file_path |-> file_path,
     pc |-> IF gd.kind = "await" THEN "await_list_roots" ELSE "done",
     cached |-> gd.kind = "return" /\ ~gd.capChecked,
     asked |-> gd.kind = "await",
     resp |-> None,
     gd |-> gd,
     out |-> IF gd.kind = "await" THEN None
             ELSE Some(ToolFinish(tool, file_path, gd))]

ResumedTask(t, resp, gd) ==
    [t EXCEPT !.pc = "done", !.resp = Some(resp), !.gd = gd,
              !.out = Some(ToolFinish(t.tool, t.file_path, gd))]

\* A tool is invoked in session s: it runs to the await of list_roots, or
\* to its end when get_directories does not suspend.
Invoke(s, tool, file_path) ==
    /\ Len(tasks) < MaxTasks
    /\ LET gd == GetDirectoriesEnter(allowed_directories, cap[s], root_directory) IN
       /\ allowed_directories' =
              IF gd.write THEN Some(gd.dirs) ELSE allowed_directories
       /\ tasks' = Append(tasks, NewTask(s, tool, file_path, gd))
    /\ UNCHANGED <<root_directory, cap>>
    /\ UNCHANGED <<clientVars, pureVars>>

\* The client answers list_roots of invocation i with `roots`.
ListRootsReturn(i, roots) ==
    /\ i \in 1..Len(tasks)
    /\ tasks[i].pc = "await_list_roots"
    /\ LET gd == GetDirectoriesResume(roots) IN
       /\ allowed_directories' =
              IF gd.write THEN Some(gd.dirs) ELSE allowed_directories
       /\ tasks' = [tasks EXCEPT ![i] =
                       ResumedTask(tasks[i], [error |-> FALSE, roots |-> roots], gd)]
    /\ UNCHANGED <<root_directory, cap>>
    /\ UNCHANGED <<clientVars, pureVars>>

\* list_roots of invocation i raises (the request fails).
ListRootsRaise(i) ==
    /\ i \in 1..Len(tasks)
    /\ tasks[i].pc = "await_list_roots"
    /\ tasks' = [tasks EXCEPT ![i] =
                    ResumedTask(tasks[i], [error |-> TRUE, roots |-> <<>>],
                                GdRaise("McpError", "list_roots failed", TRUE))]
    /\ UNCHANGED <<allowed_directories, root_directory, cap>>
    /\ UNCHANGED <<clientVars, pureVars>>

(***************************************************************************)
(* The client (client.py).  Strings that the code only passes on are TLA+  *)
(* strings; an input line is a sequence of characters, so that strip()     *)
(* and lower() are computed.                                               *)
(***************************************************************************)
RECURSIVE LStrip(_)
LStrip(cs) == IF cs # <<>> /\ Head(cs) = " " THEN LStrip(Tail(cs)) ELSE cs

RECURSIVE RStrip(_)
RStrip(cs) ==
    IF cs # <<>> /\ cs[Len(cs)] = " " THEN RStrip(SubSeq(cs, 1, Len(cs) - 1))
    ELSE cs

\* str.strip()
Strip(cs) == RStrip(LStrip(cs))

LowerChar(c) ==
    CASE c = "Q" -> "q" [] c = "U" -> "u" [] c = "I" -> "i" [] c = "T" -> "t"
      [] c = "H" -> "h" [] OTHER -> c

\* str.lower()
Lower(cs) == [i \in 1..Len(cs) |-> LowerChar(cs[i])]

\* The string a sequence of characters spells.
RECURSIVE StrOf(_)
StrOf(cs) == IF cs = <<>> THEN "" ELSE Head(cs) \o StrOf(Tail(cs))

\* "\n".join(final_text)
RECURSIVE JoinLines(_)
JoinLines(lines) ==
    IF lines = <<>> THEN ""
    ELSE IF Len(lines) = 1 THEN lines[1]
    ELSE lines[1] \o "\n" \o JoinLines(Tail(lines))

Digit(d) == <<"0", "1", "2", "3", "4", "5", "6", "7", "8", "9">>[d + 1]

\* str(n) of an int
RECURSIVE IntStr(_)
IntStr(n) ==
    IF n < 0 THEN "-" \o IntStr(-n)
    ELSE IF n < 10 THEN Digit(n)
    ELSE IntStr(n \div 10) \o Digit(n % 10)

\* repr of the strings of a list, separated by ", "
RECURSIVE ReprItems(_)
ReprItems(xs) ==
    IF xs = <<>> THEN ""
    ELSE IF Len(xs) = 1 THEN "'" \o xs[1] \o "'"
    ELSE "'" \o xs[1] \o "', " \o ReprItems(Tail(xs))

\* str(v) of a JSON value: v is [t, v] with t the Python type.
PyStr(v) ==
    CASE v.t = "int" -> IntStr(v.v)
      [] v.t = "str" -> v.v
      [] v.t = "bool" -> IF v.v THEN "True" ELSE "False"
      [] v.t = "list" -> "[" \o ReprItems(v.v) \o "]"
      [] v.t = "none" -> "None"

\* str(d) of a dict of strings, d a sequence of <<key, value>>
RECURSIVE DictItems(_)
DictItems(d) ==
    IF d = <<>> THEN ""
    ELSE IF Len(d) = 1 THEN "'" \o d[1][1] \o "': '" \o d[1][2] \o "'"
    ELSE "'" \o d[1][1] \o "': '" \o d[1][2] \o "', " \o DictItems(Tail(d))

DictStr(d) == "{" \o DictItems(d) \o "}"

\* client.py:141, the marker of one tool call
Marker(name, args) ==
    "[Calling tool " \o name \o " with args " \o DictStr(args) \o "]"

\* Python's truth value of an Optional[str] and of an Optional[list].
TruthyStr(o) == o # None /\ Get(o) # ""
TruthyList(o) == o # None /\ Len(Get(o)) > 0

\* client.py:22-37.  A missing key of inputSchema or of a property is None.
ConvertRaises(tool) ==
    \/ tool.inputSchema.required = None
    \/ tool.inputSchema.properties = None
    \/ \E k \in DOMAIN Get(tool.inputSchema.properties) :
           Get(tool.inputSchema.properties)[k].type = None

\* A variant that passes each property's schema on whole.
ConvertKeepsSchema(tool) ==
    [type |-> "function",
     function |->
        [name |-> tool.name,
         description |-> tool.description,
         parameters |->
            [required |-> Get(tool.inputSchema.required),
             properties |-> Get(tool.inputSchema.properties)]]]

convert_tools_to_ollama_format(tool) ==
    [type |-> "function",
     function |->
        [name |-> tool.name,
         description |-> tool.description,
         parameters |->
            [required |-> Get(tool.inputSchema.required),
             properties |->
                [k \in DOMAIN Get(tool.inputSchema.properties) |->
                    [type |-> Get(Get(tool.inputSchema.properties)[k].type)]]]]]

\* A variant that takes any content but None for text.
BranchNotNoneIsText(m) ==
    IF m.content # None THEN "text"
    ELSE IF TruthyList(m.tool_calls) THEN "tools"
    ELSE "none"

\* A variant that tests tool_calls before content.
BranchToolsFirst(m) ==
    IF TruthyList(m.tool_calls) THEN "tools"
    ELSE IF TruthyStr(m.content) THEN "text"
    ELSE "none"

\* client.py:130-133: which branch the first response takes.
Branch(m) ==
    IF TruthyStr(m.content) THEN "text"
    ELSE IF TruthyList(m.tool_calls) THEN "tools"
    ELSE "none"

\* A variant whose loop leaves after its first tool call.
LoopStopsAfterFirst(i, tool_calls) == FALSE

\* client.py:135: the for loop has another tool call after position i.
LoopContinues(i, tool_calls) == i < Len(tool_calls)

ToolMsg(content, name) ==
    [kind |-> "ok", err |-> "",
     msg |-> [role |-> "tool", content |-> content, tool_name |-> Some(name)]]
ToolMsgRaise(err) ==
    [kind |-> "raise", err |-> err,
     msg |-> [role |-> "tool", content |-> "", tool_name |-> None]]

\* A variant that looks at the text block before the structured result.
ToolMessageTextFirst(res, name) ==
    IF Len(res.content) > 0 /\ res.content[1].type = "text"
    THEN ToolMsg(res.content[1].text, name)
    ELSE IF res.structuredContent # None
              /\ "result" \in DOMAIN Get(res.structuredContent)
         THEN ToolMsg(PyStr(Get(res.structuredContent)["result"]), name)
         ELSE ToolMsgRaise("ValueError: Unsupported content type from tool")

\* client.py:148-166: the tool message made of the result, or the exception.
ToolMessage(res, name) ==
    IF res.structuredContent # None
    THEN IF "result" \in DOMAIN Get(res.structuredContent)
         THEN ToolMsg(PyStr(Get(res.structuredContent)["result"]), name)
         ELSE ToolMsgRaise("KeyError: 'result'")
    ELSE IF Len(res.content) = 0
         THEN ToolMsgRaise("IndexError: list index out of range")
    ELSE IF res.content[1].type = "text"
         THEN ToolMsg(res.content[1].text, name)
         ELSE ToolMsgRaise("ValueError: Unsupported content type from tool")

UserMessage(q) == [role |-> "user", content |-> q, tool_name |-> None]
AssistantMessage(c) == [role |-> "assistant", content |-> c, tool_name |-> None]

\* A variant that sends the tool catalog with every request.
ChatRequestWithCatalog(msgs, tools) ==
    [messages |-> msgs, tools |-> Some(ollama_tools), think |-> FALSE]

ChatRequest(msgs, tools) == [messages |-> msgs, tools |-> tools, think |-> FALSE]
\* A call_tool request; res is the answer it got, once it has one.
CallRequest(tc) == [name |-> tc.name, arguments |-> tc.arguments, res |-> None]

Answer(text) == Some([kind |-> "answer", text |-> text])
Failure(err) == Some([kind |-> "error", text |-> err])

(***************************************************************************)
(* What the client's collaborators may answer.                             *)
(***************************************************************************)
\* Lines typed at the prompt.
RawInputs == {<<"h", "i">>, <<" ", "h", "i", " ">>, <<"q", "u", "i", "t">>,
              <<" ", "Q", "u", "i", "T", " ">>, <<"q", "u", "i", "t", "s">>}

FilePathProperty == [type |-> Some("string"), title |-> "File Path"]
UntypedProperty == [type |-> None, title |-> "Anything"]

Descriptor(name, required, properties) ==
    [name |-> name, description |-> "about " \o name,
     inputSchema |-> [required |-> required, properties |-> properties]]

CountRowsTool ==
    Descriptor("count_csv_rows", Some(<<"file_path">>),
               Some([file_path |-> FilePathProperty]))
ReadColumnsTool ==
    Descriptor("read_csv_columns", Some(<<"file_path">>),
               Some([file_path |-> FilePathProperty]))
NoRequiredTool ==
    Descriptor("ping", None, Some([file_path |-> FilePathProperty]))
UntypedTool ==
    Descriptor("any", Some(<<>>), Some([x |-> UntypedProperty]))

\* The catalogs list_tools may return.
Catalogs == {<<>>, <<CountRowsTool, ReadColumnsTool>>,
             <<CountRowsTool, NoRequiredTool>>, <<UntypedTool>>}

SalesArgs == << <<"file_path", "sales.csv">> >>
CallA == [name |-> "count_csv_rows", arguments |-> SalesArgs]
CallB == [name |-> "read_csv_columns", arguments |-> SalesArgs]

\* response.message of the first chat.
FirstMessages ==
    [content : {None, Some(""), Some("Hi")},
     tool_calls : {None, Some(<<>>), Some(<<CallA>>), Some(<<CallA, CallB>>),
                   Some(<<CallB, CallA>>)}]

\* response.message of the follow-up chat (it is asked without tools).
FollowUpMessages ==
    [content : {None, Some(""), Some("Done")}, tool_calls : {None}]

TextBlock(text) == [type |-> "text", text |-> text]
ImageBlock == [type |-> "image", text |-> ""]
IntValue(n) == [t |-> "int", v |-> n]
ListValue(xs) == [t |-> "list", v |-> xs]

\* The results call_tool may return.
ToolResults ==
    {[structuredContent |-> Some([result |-> IntValue(42)]),
      content |-> <<TextBlock("rows=42")>>],
     [structuredContent |-> Some([result |-> ListValue(<<"id", "name">>)]),
      content |-> <<>>],
     [structuredContent |-> Some([id |-> IntValue(1)]),
      content |-> <<TextBlock("id=1")>>],
     [structuredContent |-> None, content |-> <<TextBlock("plain")>>],
     [structuredContent |-> None, content |-> <<ImageBlock>>],
     [structuredContent |-> None, content |-> <<>>]}

NoMessage == [content |-> None, tool_calls |-> None]

(***************************************************************************)
(* chat_loop and process_query, one action per resumption.                 *)
(***************************************************************************)
\* A variant whose except clause leaves the loop.
FailExits(err) ==
    /\ output' = Failure(err)
    /\ cpc' = "exited"

\* An exception reaches chat_loop's except clause: it is printed and the
\* loop prompts again.
Fail(err) ==
    /\ output' = Failure(err)
    /\ cpc' = "prompt"

\* A variant that keeps the conversation of the earlier queries.
AccumulatedMessages(q) == Append(messages, UserMessage(q))

\* client.py:115: the conversation process_query starts from.
InitialMessages(q) == <<UserMessage(q)>>

\* client.py:184-189 and 115-117: a line is read; "quit" ends the loop, any
\* other line starts process_query, which runs to the await of list_tools.
ReadLine(raw) ==
    /\ cpc = "prompt"
    /\ nq < MaxQueries
    /\ nq' = nq + 1
    /\ query' = StrOf(Strip(raw))
    /\ IF Lower(Strip(raw)) = <<"q", "u", "i", "t">>
       THEN /\ cpc' = "exited"
            /\ UNCHANGED <<messages, ollama_tools, message, callIdx, tool_name,
                           result, final_text, calls, chats, output,
                           prevMessages>>
       ELSE /\ cpc' = "list_tools"
            /\ prevMessages' = messages
            /\ messages' = InitialMessages(StrOf(Strip(raw)))
            /\ ollama_tools' = <<>>
            /\ message' = NoMessage
            /\ callIdx' = 0
            /\ tool_name' = ""
            /\ result' = None
            /\ final_text' = <<>>
            /\ calls' = <<>>
            /\ chats' = <<>>
            /\ output' = None
    /\ UNCHANGED <<serverVars, pureVars>>

\* client.py:117-123: list_tools answers; the catalog is converted and the
\* first chat request is sent.
ListToolsReturn(catalog) ==
    /\ cpc = "list_tools"
    /\ IF \E i \in 1..Len(catalog) : ConvertRaises(catalog[i])
       THEN /\ Fail("KeyError")
            /\ UNCHANGED <<ollama_tools, chats>>
       ELSE /\ ollama_tools' =
                [i \in 1..Len(catalog) |-> convert_tools_to_ollama_format(catalog[i])]
            /\ chats' = Append(chats, ChatRequest(messages, Some(ollama_tools')))
            /\ cpc' = "chat1"
            /\ UNCHANGED output
    /\ UNCHANGED <<nq, query, messages, message, callIdx, tool_name, result,
                   final_text, calls, prevMessages>>
    /\ UNCHANGED <<serverVars, pureVars>>

\* The awaited call (list_tools, chat, call_tool) raises.
AwaitRaises ==
    /\ cpc \in {"list_tools", "chat1", "call_tool", "chat2"}
    /\ Fail("Exception: " \o cpc)
    /\ UNCHANGED <<nq, query, messages, ollama_tools, message, callIdx,
                   tool_name, result, final_text, calls, chats, prevMessages>>
    /\ UNCHANGED <<serverVars, pureVars>>

\* client.py:129-140 and 175: the first chat answers with message m.
Chat1Return(m) ==
    /\ cpc = "chat1"
    /\ message' = m
    /\ CASE Branch(m) = "text" ->
              /\ final_text' = Append(final_text, Get(m.content))
              /\ output' = Answer(JoinLines(final_text'))
              /\ cpc' = "prompt"
              /\ UNCHANGED <<callIdx, tool_name, calls>>
         [] Branch(m) = "tools" ->
              /\ callIdx' = 1
              /\ tool_name' = Get(m.tool_calls)[1].name
              /\ calls' = Append(calls, CallRequest(Get(m.tool_calls)[1]))
              /\ cpc' = "call_tool"
              /\ UNCHANGED <<final_text, output>>
         [] OTHER ->
              /\ output' = Answer(JoinLines(final_text))
              /\ cpc' = "prompt"
              /\ UNCHANGED <<callIdx, tool_name, calls, final_text>>
    /\ UNCHANGED <<nq, query, messages, ollama_tools, result, chats,
                   prevMessages>>
    /\ UNCHANGED <<serverVars, pureVars>>

\* client.py:140-171: call_tool answers with res.  The marker is appended;
\* the loop goes on to the next tool call, or ends and the follow-up chat
\* request is sent.
CallToolReturn(res) ==
    /\ cpc = "call_tool"
    /\ result' = Some(res)
    /\ LET tcs == Get(message.tool_calls)
           tm == ToolMessage(res, tool_name)
           withAssistant ==
               IF TruthyStr(message.content)
               THEN Append(messages, AssistantMessage(Get(message.content)))
               ELSE messages
       IN /\ final_text' =
                 Append(final_text, Marker(tool_name, tcs[callIdx].arguments))
          /\ IF LoopContinues(callIdx, tcs)
             THEN /\ callIdx' = callIdx + 1
                  /\ tool_name' = tcs[callIdx + 1].name
                  /\ calls' = Append([calls EXCEPT ![callIdx].res = Some(res)],
                                     CallRequest(tcs[callIdx + 1]))
                  /\ UNCHANGED <<cpc, messages, chats, output>>
             ELSE /\ calls' = [calls EXCEPT ![callIdx].res = Some(res)]
                  /\ UNCHANGED <<callIdx, tool_name>>
                  /\ IF tm.kind = "raise"
                     THEN /\ messages' = withAssistant
                          /\ Fail(tm.err)
                          /\ UNCHANGED chats
                     ELSE /\ messages' = Append(withAssistant, tm.msg)
                          /\ chats' = Append(chats, ChatRequest(messages', None))
                          /\ cpc' = "chat2"
                          /\ UNCHANGED output
    /\ UNCHANGED <<nq, query, ollama_tools, message, prevMessages>>
    /\ UNCHANGED <<serverVars, pureVars>>

\* client.py:173-175: the follow-up chat answers with message m.  A content
\* of None makes join raise TypeError (final_text is then left as it was).
Chat2Return(m) ==
    /\ cpc = "chat2"
    /\ IF m.content = None
       THEN /\ Fail("TypeError: sequence item: expected str instance")
            /\ UNCHANGED final_text
       ELSE /\ final_text' = Append(final_text, Get(m.content))
            /\ output' = Answer(JoinLines(final_text'))
            /\ cpc' = "prompt"
    /\ UNCHANGED <<nq, query, messages, ollama_tools, message, callIdx,
                   tool_name, result, calls, chats, prevMessages>>
    /\ UNCHANGED <<serverVars, pureVars>>

ClientIdle ==
    /\ cpc = "prompt"
    /\ nq = 0
    /\ query = ""
    /\ messages = <<>>
    /\ ollama_tools = <<>>
    /\ message = NoMessage
    /\ callIdx = 0
    /\ tool_name = ""
    /\ result = None
    /\ final_text = <<>>
    /\ calls = <<>>
    /\ chats = <<>>
    /\ output = None
    /\ prevMessages = <<>>

ServerIdle ==
    /\ allowed_directories = None
    /\ root_directory = None
    /\ cap = [s \in Sessions |-> FALSE]
    /\ tasks = <<>>

(***************************************************************************)
(* find_file_in_allowed_dirs on its own: the arguments are drawn at the    *)
(* start and the function is applied once.                                 *)
(***************************************************************************)
DirZ == AbsPath(<<"z">>)
LookupDirs == {DirA, DirB, DirC, DirZ}

\* Every list of at most MaxDirs directories.
DirLists == UNION {[1..n -> LookupDirs] : n \in 0..MaxDirs}

\* The file_path arguments: relative, with "..", absolute, a directory.
LookupPaths ==
    {RelPath(<<"x.csv">>), RelPath(<<"y.csv">>), RelPath(<<"nope.csv">>),
     RelPath(<<"sub">>), RelPath(<<"sub", "..", "x.csv">>),
     RelPath(<<"..", "b", "y.csv">>), RelPath(<<"..", "c", "s.csv">>),
     AbsPath(<<"c", "s.csv">>), AbsPath(<<"b", "x.csv">>)}

NoLookup ==
    [file_path |-> RelPath(<<>>), allowed_dirs |-> <<>>, done |-> FALSE,
     found |-> None]

LookupIdle == lookup = NoLookup

NoConversion == [tool |-> Descriptor("", None, None), done |-> FALSE, out |-> None]

ConversionIdle == conversion = NoConversion

FindFile ==
    /\ ~lookup.done
    /\ lookup' = [lookup EXCEPT
                     !.done = TRUE,
                     !.found = find_file_in_allowed_dirs(lookup.file_path,
                                                         lookup.allowed_dirs)]
    /\ UNCHANGED <<serverVars, clientVars, conversion>>

InitLookup ==
    /\ lookup \in [file_path : LookupPaths, allowed_dirs : DirLists,
                    done : {FALSE}, found : {None}]
    /\ ClientIdle
    /\ ServerIdle
    /\ ConversionIdle

NextLookup == FindFile

SpecLookup == InitLookup /\ [][NextLookup]_vars

(***************************************************************************)
(* convert_tools_to_ollama_format on its own: a descriptor is drawn at the *)
(* start and converted once.                                               *)
(***************************************************************************)
LimitProperty == [type |-> Some("integer"), title |-> "Limit"]

\* inputSchema["required"]: missing, or a list of names.
RequiredLists == {None, Some(<<>>), Some(<<"file_path">>),
                  Some(<<"file_path", "limit">>), Some(<<"limit">>)}

\* inputSchema["properties"]: missing, or a mapping of names to schemas.
PropertyMaps ==
    {None, Some(<<>>), Some([file_path |-> FilePathProperty]),
     Some([file_path |-> FilePathProperty, limit |-> LimitProperty]),
     Some([x |-> UntypedProperty])}

ConvertInputs ==
    {Descriptor(n, r, p) : n \in {"count_csv_rows", "read_csv_columns", "ping"},
                           r \in RequiredLists, p \in PropertyMaps}

\* The declaration, or the KeyError of a missing key.
ConvertOutcome(tool) ==
    IF ConvertRaises(tool) THEN [kind |-> "raise", decl |-> None]
    ELSE [kind |-> "ok", decl |-> Some(convert_tools_to_ollama_format(tool))]

Convert ==
    /\ ~conversion.done
    /\ conversion' = [conversion EXCEPT
                         !.done = TRUE,
                         !.out = Some(ConvertOutcome(conversion.tool))]
    /\ UNCHANGED <<serverVars, clientVars, lookup>>

InitConvert ==
    /\ conversion \in [tool : ConvertInputs, done : {FALSE}, out : {None}]
    /\ ClientIdle
    /\ ServerIdle
    /\ LookupIdle

NextConvert == Convert

SpecConvert == InitConvert /\ [][NextConvert]_vars

InitClient == ClientIdle /\ ServerIdle /\ LookupIdle /\ ConversionIdle

NextClient ==
    \/ \E raw \in RawInputs : ReadLine(raw)
    \/ \E catalog \in Catalogs : ListToolsReturn(catalog)
    \/ AwaitRaises
    \/ \E m \in FirstMessages : Chat1Return(m)
    \/ \E res \in ToolResults : CallToolReturn(res)
    \/ \E m \in FollowUpMessages : Chat2Return(m)

SpecClient == InitClient /\ [][NextClient]_vars

InitServer ==
    /\ allowed_directories = None
    /\ root_directory \in RootDirectoryArgs
    /\ cap \in [Sessions -> BOOLEAN]
    /\ tasks = <<>>
    /\ ClientIdle
    /\ LookupIdle
    /\ ConversionIdle

NextServer ==
    \/ \E s \in Sessions, c \in ToolCalls : Invoke(s, c[1], c[2])
    \/ \E i \in 1..MaxTasks, roots \in RootLists : ListRootsReturn(i, roots)
    \/ \E i \in 1..MaxTasks : ListRootsRaise(i)

SpecServer == InitServer /\ [][NextServer]_vars

(***************************************************************************)
(* Properties                                                              *)
(***************************************************************************)
TaskIds == DOMAIN tasks
IsDone(t) == t.pc = "done"
IsPrefix(a, b) == Len(a) <= Len(b) /\ SubSeq(b, 1, Len(a)) = a

\* process_query has returned an answer after taking the tool branch.
AnsweredByTools ==
    /\ cpc = "prompt"
    /\ output # None
    /\ Get(output).kind = "answer"
    /\ Branch(message) = "tools"

\* C1: when the first response carries non-empty text, process_query calls
\* no tool and sends no follow-up chat request, whatever tool_calls holds;
\* the text is the answer.
C1_TextAnswerCallsNoTool ==
    TruthyStr(message.content) =>
        /\ calls = <<>>
        /\ Len(chats) = 1
        /\ cpc \in {"prompt", "exited"}
        /\ output = Answer(Get(message.content))

C1_Witness ==
    /\ message = [content |-> Some("Hi"), tool_calls |-> Some(<<CallA, CallB>>)]
    /\ output = Answer("Hi")
    /\ calls = <<>>

C3_ResolvedOncePerSession ==
    \A s \in Sessions :
        LET mine == {i \in TaskIds : tasks[i].session = s} IN
        /\ Cardinality({i \in mine : tasks[i].gd.write}) <= 1
        /\ \A i, j \in mine :
               (tasks[i].gd.kind = "return" /\ tasks[j].gd.kind = "return")
                   => tasks[i].gd.dirs = tasks[j].gd.dirs

\* C4: a call of get_directories that starts when the cache is set returns
\* the cached directories at once: no capability check, no list_roots
\* request, the cache left as it was; they are the directories an earlier
\* resolution stored.
C4_SecondCallServedFromCache ==
    [][(allowed_directories # None /\ Len(tasks') = Len(tasks) + 1) =>
            LET t == tasks'[Len(tasks')] IN
            /\ IsDone(t)
            /\ t.gd.kind = "return"
            /\ t.gd.dirs = Get(allowed_directories)
            /\ ~t.gd.capChecked
            /\ ~t.asked
            /\ t.resp = None
            /\ allowed_directories' = allowed_directories
            /\ \E j \in TaskIds : /\ tasks[j].gd.write
                                  /\ tasks[j].gd.dirs = t.gd.dirs]_vars

C4_Witness ==
    /\ Len(tasks) = 2
    /\ tasks[1].session = tasks[2].session
    /\ tasks[1].gd.write
    /\ tasks[1].asked
    /\ tasks[2].cached
    /\ tasks[2].gd.dirs = tasks[1].gd.dirs

HasRootWithPath(roots) == \E k \in DOMAIN roots : roots[k].path # None

\* C5: a call that finds the cache unset and a capable client that answers
\* with at least one root returns the client's roots, also when
\* --root_directory was given; a call returns the static directory only
\* when the client does not declare the capability.
C5_LiveRootsBeforeStatic ==
    \A i \in TaskIds :
        LET t == tasks[i] IN
        (IsDone(t) /\ ~t.cached) =>
            /\ (/\ cap[t.session]
                /\ t.resp # None
                /\ ~Get(t.resp).error
                /\ HasRootWithPath(Get(t.resp).roots))
                   => /\ t.gd.kind = "return"
                      /\ t.gd.dirs = RootPaths(Get(t.resp).roots)
                      /\ t.gd.write
            /\ (t.gd.kind = "return" /\ t.resp = None)
                   => /\ ~cap[t.session]
                      /\ root_directory # None
                      /\ t.gd.dirs = <<Get(root_directory)>>

C5_Witness ==
    \E i \in TaskIds :
        /\ IsDone(tasks[i])
        /\ cap[tasks[i].session]
        /\ root_directory = <<DirC>>
        /\ tasks[i].resp = Some([error |-> FALSE, roots |-> <<RootNoPath, RootB, RootA>>])
        /\ tasks[i].gd.dirs = <<DirB, DirA>>
        /\ allowed_directories = Some(<<DirB, DirA>>)

\* C6: when a capable client's root list yields no directory,
\* get_directories raises ValueError and stores nothing, also when
\* --root_directory was given; the tool ends in an error.
C6_EmptyRootListFails ==
    \A i \in TaskIds :
        LET t == tasks[i] IN
        (/\ IsDone(t)
         /\ t.resp # None
         /\ ~Get(t.resp).error
         /\ ~HasRootWithPath(Get(t.resp).roots))
            => /\ t.gd.kind = "raise"
               /\ t.gd.exc = "ValueError"
               /\ t.gd.err = "No root directories available from client."
               /\ ~t.gd.write
               /\ Get(t.out).kind = "error"

C6_Witness ==
    \E i \in TaskIds :
        /\ IsDone(tasks[i])
        /\ root_directory = <<DirC>>
        /\ tasks[i].resp = Some([error |-> FALSE, roots |-> <<>>])
        /\ tasks[i].gd.kind = "raise"
        /\ allowed_directories = None

\* C7: with the cache unset, no roots capability and no --root_directory,
\* get_directories raises; and in each of the four tools a get_directories
\* that raised ends the invocation in an error with no file lookup and no
\* CSV read.
C7_UnresolvedFailsBeforeLookup ==
    \A i \in TaskIds :
        LET t == tasks[i] IN
        IsDone(t) =>
            /\ (~t.cached /\ ~cap[t.session] /\ root_directory = None)
                   => (t.gd.kind = "raise" /\ t.gd.exc = "ValueError")
            /\ t.gd.kind = "raise"
                   => /\ Get(t.out).kind = "error"
                      /\ Get(t.out).lookups = 0
                      /\ Get(t.out).reads = 0
                      /\ Get(t.out).opened = None

C7_Witness ==
    /\ Len(tasks) = 2
    /\ root_directory = None
    /\ \A i \in TaskIds : /\ IsDone(tasks[i])
                          /\ ~cap[tasks[i].session]
                          /\ tasks[i].gd.kind = "raise"
                          /\ Get(tasks[i].out).lookups = 0
    /\ tasks[1].tool = "get_csv_schema"
    /\ tasks[2].tool = "read_csv_columns"

\* C8 as stated: whatever file_path is, the path find_file_in_allowed_dirs
\* returns is located inside one of the allowed directories.
C8_FoundInsideAllowedDirs ==
    (lookup.done /\ lookup.found # None) =>
        \E k \in DOMAIN lookup.allowed_dirs :
            /\ Resolve(lookup.allowed_dirs[k]) # None
            /\ IsPrefix(Get(Resolve(lookup.allowed_dirs[k])),
                        Get(Resolve(Get(lookup.found))))

\* A regular file exists at the relative path rel, starting from dir.
ContainsFile(dir, rel) ==
    /\ Walk(dir.parts, rel.parts) # None
    /\ Get(Walk(dir.parts, rel.parts)) \in FsFiles

\* C9: for a relative file_path, find_file_in_allowed_dirs returns the path
\* under the first directory, in the list's order, that contains a regular
\* file at that relative path, and None exactly when no directory does.
C9_FirstMatchInOrder ==
    (lookup.done /\ ~lookup.file_path.abs) =>
        LET dirs == lookup.allowed_dirs
            hits == {k \in DOMAIN dirs : ContainsFile(dirs[k], lookup.file_path)}
        IN IF hits = {} THEN lookup.found = None
           ELSE \E k \in hits :
                    /\ \A j \in hits : k <= j
                    /\ lookup.found =
                           Some(AbsPath(dirs[k].parts \o lookup.file_path.parts))

C9_Witness ==
    /\ lookup.done
    /\ lookup.allowed_dirs = <<DirA, DirB>>
    /\ lookup.file_path = RelPath(<<"x.csv">>)
    /\ lookup.found = Some(AbsPath(<<"a", "x.csv">>))

\* C10: when the tool result that is used carries a structured result, the
\* tool message of the follow-up request has str(structuredContent["result"])
\* as its content ({"result": 42} gives "42"), whatever text blocks the
\* result also carries.
C10_StructuredResultPreferred ==
    (Len(chats) = 2 /\ Get(result).structuredContent # None) =>
        LET sc == Get(Get(result).structuredContent)
            sent == chats[2].messages
            tm == sent[Len(sent)]
        IN /\ "result" \in DOMAIN sc
           /\ tm.role = "tool"
           /\ tm.tool_name = Some(tool_name)
           /\ tm.content = PyStr(sc["result"])
           /\ (sc["result"].t = "int" /\ sc["result"].v = 42) => tm.content = "42"
           /\ sc["result"].t = "list" => tm.content = "['id', 'name']"

C10_Witness ==
    /\ Len(chats) = 2
    /\ result = Some([structuredContent |-> Some([result |-> IntValue(42)]),
                      content |-> <<TextBlock("rows=42")>>])
    /\ chats[2].messages =
           <<UserMessage("hi"),
             [role |-> "tool", content |-> "42",
              tool_name |-> Some("count_csv_rows")]>>

\* The for loop over tool_calls has ended: the last call_tool has answered.
LastResultIn ==
    /\ Branch(message) = "tools"
    /\ callIdx = Len(Get(message.tool_calls))
    /\ Len(calls) = callIdx
    /\ calls[callIdx].res # None

\* Neither a structured result nor a plain-text content block.
UnsupportedShape(res) ==
    /\ res.structuredContent = None
    /\ \A k \in DOMAIN res.content : res.content[k].type # "text"

\* C11 as stated: a tool result of unsupported shape, an empty content
\* sequence included, ends the query with the unsupported-content error; no
\* follow-up chat request is made and no tool call is sent again.
C11_UnsupportedResultFailsQuery ==
    (LastResultIn /\ UnsupportedShape(Get(result))) =>
        /\ cpc \in {"prompt", "exited"}
        /\ output = Failure("ValueError: Unsupported content type from tool")
        /\ Len(chats) = 1
        /\ Len(calls) = Len(Get(message.tool_calls))

\* A declaration was produced for the descriptor drawn.
Converted == conversion.done /\ Get(conversion.out).kind = "ok"
Declared == Get(Get(conversion.out).decl).function.parameters
SeqRange(xs) == {xs[k] : k \in DOMAIN xs}

\* C12 as stated: whenever the schema has a required list and a properties
\* mapping, every name of the declaration's required list is among its
\* exposed properties, and each exposed property carries only its type.
C12_RequiredAmongProperties ==
    Converted =>
        /\ SeqRange(Declared.required) \subseteq DOMAIN Declared.properties
        /\ \A k \in DOMAIN Declared.properties :
               DOMAIN Declared.properties[k] = {"type"}

\* C12 amended: the declaration keeps the descriptor's required list as it
\* is and exposes exactly the descriptor's property names, each carrying
\* only its type; so a required name is among the exposed properties
\* exactly when the descriptor's properties mapping has it.  It is produced
\* whenever required, properties and every property's type are present.
C12_SchemaNarrowedToTypes ==
    LET schema == conversion.tool.inputSchema IN
    /\ (/\ conversion.done
        /\ schema.required # None
        /\ schema.properties # None
        /\ \A k \in DOMAIN Get(schema.properties) :
               Get(schema.properties)[k].type # None) => Converted
    /\ Converted =>
        /\ Get(Get(conversion.out).decl).function.name = conversion.tool.name
        /\ Declared.required = Get(schema.required)
        /\ DOMAIN Declared.properties = DOMAIN Get(schema.properties)
        /\ \A k \in DOMAIN Declared.properties :
               /\ DOMAIN Declared.properties[k] = {"type"}
               /\ Declared.properties[k].type = Get(Get(schema.properties)[k].type)
        /\ \A n \in SeqRange(Declared.required) :
               n \in DOMAIN Declared.properties
                   <=> n \in DOMAIN Get(schema.properties)

C12_Witness ==
    /\ Converted
    /\ conversion.tool.name = "count_csv_rows"
    /\ Declared.required = <<"file_path", "limit">>
    /\ Declared.properties =
           [file_path |-> [type |-> "string"], limit |-> [type |-> "integer"]]

\* C13 as stated: the directories a session's get_directories returns come
\* from that session: a returned set was stored by an invocation of the
\* same session, never one resolved and cached for another session.
C13_ResolvedFromOwnSession ==
    \A i \in TaskIds :
        LET t == tasks[i] IN
        (IsDone(t) /\ t.gd.kind = "return") =>
            \E j \in TaskIds : /\ tasks[j].session = t.session
                               /\ tasks[j].gd.write
                               /\ tasks[j].gd.dirs = t.gd.dirs

InProcessQuery == cpc \in {"list_tools", "chat1", "call_tool", "chat2"}

\* C14: a step in which process_query fails reports the error and leaves
\* the loop at its prompt; and the loop is left only from the prompt, on a
\* line that is "quit" once trimmed and lowered.
C14_FailedQueryKeepsLoop ==
    [][/\ (InProcessQuery /\ output' # None /\ Get(output').kind = "error")
            => cpc' = "prompt"
       /\ (cpc # "exited" /\ cpc' = "exited")
            => /\ cpc = "prompt"
               /\ nq' = nq + 1
               /\ query' \in {"quit", "QuiT"}
               /\ output' = output]_vars

\* The first query failed in its follow-up chat, the loop prompted again,
\* and the second line was " QuiT ".
C14_Witness ==
    /\ nq = 2
    /\ cpc = "exited"
    /\ query = "QuiT"
    /\ output = Failure("Exception: chat2")

\* C15: allowed_directories is None or a non-empty list, and no call of
\* get_directories returns an empty list, whatever calls succeeded or
\* failed before.
C15_CacheUnsetOrNonEmpty ==
    /\ allowed_directories # None => Len(Get(allowed_directories)) > 0
    /\ \A i \in TaskIds :
           tasks[i].gd.kind = "return" => Len(tasks[i].gd.dirs) > 0

\* A call failed on a root list without directories, the cache stayed
\* unset, and a later call resolved.
C15_Witness ==
    /\ Len(tasks) = 2
    /\ tasks[1].resp = Some([error |-> FALSE, roots |-> <<RootNoPath>>])
    /\ tasks[1].gd.kind = "raise"
    /\ ~tasks[2].cached
    /\ tasks[2].gd.kind = "return"
    /\ allowed_directories = Some(tasks[2].gd.dirs)

\* The markers of the tool calls, in the order of the response.
Markers(tcs) == [k \in 1..Len(tcs) |-> Marker(tcs[k].name, tcs[k].arguments)]

\* C16: the follow-up chat request is sent only when every tool call of the
\* response has its result; it carries the whole conversation and no tool
\* catalog; and the answer is the markers in call order, then the
\* follow-up text as the last element, joined by newlines.
C16_FollowUpAfterToolsNoCatalog ==
    /\ Len(chats) = 2 =>
          /\ TruthyList(message.tool_calls)
          /\ Len(calls) = Len(Get(message.tool_calls))
          /\ \A k \in DOMAIN calls : calls[k].res # None
          /\ calls[Len(calls)].res = result
          /\ chats[2].tools = None
          /\ chats[2].messages = messages
          /\ IsPrefix(chats[1].messages, chats[2].messages)
    /\ AnsweredByTools =>
          LET tcs == Get(message.tool_calls) IN
          /\ Len(chats) = 2
          /\ Len(final_text) = Len(tcs) + 1
          /\ SubSeq(final_text, 1, Len(tcs)) = Markers(tcs)
          /\ final_text[Len(final_text)] \in {"", "Done"}
          /\ output = Answer(JoinLines(final_text))

C16_Witness ==
    /\ AnsweredByTools
    /\ message.tool_calls = Some(<<CallB, CallA>>)
    /\ chats[2] = ChatRequest(messages, None)
    /\ Len(messages) = 2
    /\ output = Answer(
         "[Calling tool read_csv_columns with args {'file_path': 'sales.csv'}]\n"
         \o "[Calling tool count_csv_rows with args {'file_path': 'sales.csv'}]\n"
         \o "Done")

\* C17: while a query is processed, its first chat request holds exactly
\* one message, the user message of this query; and every message of every
\* request is this query's user message or the tool message made of this
\* query's tool result, so nothing of an earlier query is sent.
C17_QueryStartsFromOneUserMessage ==
    (cpc # "exited" /\ Len(chats) >= 1) =>
        /\ chats[1].messages = <<UserMessage(query)>>
        /\ \A k \in DOMAIN chats :
               /\ chats[k].messages[1] = UserMessage(query)
               /\ \A j \in 2..Len(chats[k].messages) :
                      /\ j = 2
                      /\ result # None
                      /\ chats[k].messages[j] =
                             ToolMessage(Get(result), tool_name).msg

\* The second query, after a first one that left a user and a tool message.
C17_Witness ==
    /\ nq = 2
    /\ cpc = "prompt"
    /\ Len(prevMessages) = 2
    /\ prevMessages[2].role = "tool"
    /\ Len(chats) = 2
    /\ chats[1].messages = <<UserMessage("hi")>>

\* Invocation i ends in this step with get_directories having raised.
FailsNow(i) ==
    /\ i \in DOMAIN tasks'
    /\ i \notin DOMAIN tasks \/ ~IsDone(tasks[i])
    /\ IsDone(tasks'[i])
    /\ tasks'[i].gd.kind = "raise"

\* C18 as stated: a get_directories call that fails leaves
\* allowed_directories as it was, and that is None, so that the next call
\* negotiates again.
C18_FailedCallLeavesCacheUnset ==
    [][\A i \in 1..MaxTasks :
           FailsNow(i) => /\ allowed_directories' = allowed_directories
                          /\ allowed_directories' = None]_vars

\* C19: the follow-up chat request holds exactly two messages, the user
\* message of the query and one tool message tagged with the name of the
\* last tool call; no request holds an assistant message; and the calls
\* are made only when the response's text is empty.
C19_FollowUpIsUserThenTool ==
    /\ (cpc # "exited" /\ Len(chats) = 2) =>
          LET tcs == Get(message.tool_calls) IN
          /\ Len(chats[2].messages) = 2
          /\ chats[2].messages[1] = UserMessage(query)
          /\ chats[2].messages[2].role = "tool"
          /\ chats[2].messages[2].tool_name = Some(tcs[Len(tcs)].name)
    /\ \A k \in DOMAIN chats : \A j \in DOMAIN chats[k].messages :
           chats[k].messages[j].role # "assistant"
    /\ \A j \in DOMAIN messages : messages[j].role # "assistant"
    /\ calls # <<>> => ~TruthyStr(message.content)

C19_Witness ==
    /\ cpc = "chat2"
    /\ message = [content |-> Some(""), tool_calls |-> Some(<<CallA, CallB>>)]
    /\ chats[2].messages =
           <<UserMessage("hi"),
             [role |-> "tool", content |-> "plain",
              tool_name |-> Some("read_csv_columns")]>>

\* C20: when the first chat answers with a response that has neither text
\* (None or "") nor tool calls (None or []), process_query returns ""
\* normally in that step: no call_tool, no follow-up chat request, nothing
\* in the trace.
C20_EmptyResponseReturnsEmpty ==
    [][(/\ cpc = "chat1"
        /\ output' # Failure("Exception: chat1")
        /\ ~TruthyStr(message'.content)
        /\ ~TruthyList(message'.tool_calls)) =>
            /\ cpc' = "prompt"
            /\ output' = Answer("")
            /\ calls' = <<>>
            /\ chats' = chats
            /\ Len(chats') = 1
            /\ final_text' = <<>>]_vars

C20_Witness ==
    /\ message = [content |-> Some(""), tool_calls |-> Some(<<>>)]
    /\ cpc = "prompt"
    /\ output = Answer("")
    /\ calls = <<>>
    /\ Len(chats) = 1
    /\ final_text = <<>>

====
